---- MODULE Spec2Model ----
(***************************************************************************)
(* A model of the dei_rankings scraping pipeline: the URL canonicalizer    *)
(* and the token classifier of utils.py, the scraping functions of         *)
(* scrape.py and the top-level script main.py.                             *)
(*                                                                         *)
(* Python strings are modelled as sequences of one-character strings, so   *)
(* that split, substring tests, endswith, isdigit and int are computed as  *)
(* the code computes them.                                                 *)
(***************************************************************************)
EXTENDS Integers, Sequences, FiniteSets, TLC

VARIABLES
    url,           \* SpecUrl: the argument of get_core_url_part
    core,          \* SpecUrl: the outcome of get_core_url_part(url)
    core_part,     \* SpecClassify: the argument of predict_country_study_year
    prediction,    \* SpecClassify: the outcome of predict_country_study_year
    country_map_arg, \* SpecClassify: the dict passed as country_map
    study_map_arg, \* SpecClassify: the dict passed as study_map
    calls,         \* SpecClassify: the calls of predict_country_study_year made
    rows,          \* SpecClean: the argument of clean_rows
    df,            \* SpecClean: the outcome of clean_rows(rows)
    files,         \* the CSV files on disk: file name -> content or no file
    open_sessions, \* browser sessions acquired and never quit
    call,          \* the last call of to_csv: its arguments and what it did
    pc,            \* main.py: the step the script is at
    status,        \* main.py: "running", the exit status, or the uncaught exception
    registry,      \* the rows of the datasets sheet of datasets.xlsx
    datasets,      \* main.py: the rows read from the registry at startup
    links,         \* main.py: the links get_available_rankings returned
    new_urls,      \* main.py: the links that match no known entry, in order
    idx,           \* main.py: the position of the running loop (1-based)
    added,         \* the last pass of the new_urls loop: its url and prediction
    data_json,     \* whether data.json was written
    io_log,        \* main.py: the registry, browser and CSV operations so far, in order
    web_site,      \* SpecFetch: what the browser and the site do during the call
    fetch,         \* SpecFetch: the running call of get_rows_from_url
    workbook,      \* SpecAppend: the datasets sheet of datasets.xlsx, cell by cell
    appends        \* SpecAppend: the data_dict of each call of add_new_dataset

urlVars == <<url, core>>
classifyVars == <<core_part, prediction, country_map_arg, study_map_arg, calls>>
cleanVars == <<rows, df>>
scrapeVars == <<files, open_sessions, call>>
mainVars == <<pc, status, registry, datasets, links, new_urls, idx, added, data_json,
              io_log>>
fetchVars == <<web_site, fetch>>
sheetVars == <<workbook, appends>>

vars == <<urlVars, classifyVars, cleanVars, scrapeVars, mainVars, fetchVars, sheetVars>>

(***************************************************************************)
(* Bounds of the model.                                                    *)
(***************************************************************************)
\* the longest url of SpecUrl, in '/'-separated raw segments
MaxSegs == 3
\* the longest core part of SpecClassify, in '-'-separated tokens
MaxTokens == 4
\* the longest list of raw rows of SpecClean
MaxRows == 3
\* the most pagination controls a ranking page of the model shows
MaxSitePages == 6
\* the most rows the registry holds when the script starts
MaxRegistry == 2
\* the most anchors the listing page shows
MaxLinks == 2
\* the most calls of predict_country_study_year on one core part
MaxCalls == 2

(***************************************************************************)
(* String literals.                                                        *)
(***************************************************************************)
S_empty == <<>>
S_slash == <<"/">>
S_dash == <<"-">>
S_best == <<"b","e","s","t">>
S_beste == <<"b","e","s","t","e">>
S_employers == <<"e","m","p","l","o","y","e","r","s">>
S_arbeitgeber == <<"a","r","b","e","i","t","g","e","b","e","r">>
S_the == <<"t","h","e">>
S_feur == <<"f","e","u","r">>
S_ranking == <<"r","a","n","k","i","n","g">>
S_employers_dash == <<"e","m","p","l","o","y","e","r","s","-">>
S_https == <<"h","t","t","p","s",":">>
S_host == <<"r",".","s","t","a","t","i","s","t","a",".","c","o","m">>
S_en == <<"e","n">>
S_usa == <<"u","s","a">>
S_uk == <<"u","k">>
S_women == <<"w","o","m","e","n">>
S_startups == <<"s","t","a","r","t","u","p","s">>
S_2023 == <<"2","0","2","3">>
S_2022 == <<"2","0","2","2">>
S_0000 == <<"0","0","0","0">>
S_123 == <<"1","2","3">>
S_usas == <<"u","s","a","s">>
S_xyz == <<"x","y","z">>

(***************************************************************************)
(* Python string and list primitives.                                      *)
(***************************************************************************)
\* str.split(sep) for a one-character separator: the pieces between
\* consecutive separators, so '' splits to [''] and 'a/' to ['a', ''].
split(s, sep) ==
    LET seps == {i \in 1..Len(s) : s[i] = sep}
        \* the place of the k-th separator; 0 and Len(s) + 1 stand at the ends
        sepAt(k) == IF k = 0 THEN 0
                    ELSE IF k > Cardinality(seps) THEN Len(s) + 1
                    ELSE CHOOSE i \in seps : Cardinality({j \in seps : j < i}) = k - 1
    IN  [k \in 1..(Cardinality(seps) + 1) |->
            SubSeq(s, sepAt(k - 1) + 1, sepAt(k) - 1)]

\* sub in s
contains(s, sub) ==
    \E i \in 1..(Len(s) - Len(sub) + 1) : SubSeq(s, i, i + Len(sub) - 1) = sub

RECURSIVE join(_, _)
\* sep.join(pieces)
join(pieces, sep) ==
    IF Len(pieces) = 0 THEN <<>>
    ELSE IF Len(pieces) = 1 THEN pieces[1]
    ELSE pieces[1] \o sep \o join(Tail(pieces), sep)

(***************************************************************************)
(* utils.get_core_url_part.  The outcome is a record: exc is "none" on a   *)
(* normal return (value holds the returned string) and the exception's     *)
(* class otherwise (msg holds which of the two ValueError messages).       *)
(***************************************************************************)
Returned(v) == [exc |-> "none", msg |-> "", value |-> v]
Raised(e, m) == [exc |-> e, msg |-> m, value |-> <<>>]
NotCalled == [exc |-> "notcalled", msg |-> "", value |-> <<>>]

\* 'best' in part or 'employers-' in part
is_marked(part) == contains(part, S_best) \/ contains(part, S_employers_dash)

\* [part for part in url.split('/') if part != '']
url_parts(u) == SelectSeq(split(u, "/"), LAMBDA part : part # <<>>)

\* a variant of get_core_url_part that returns the first marked part even
\* when a second one follows
get_core_url_part_first_match(u) ==
    LET parts == url_parts(u)
        marked == SelectSeq(parts, is_marked)
    IN  IF Len(parts) = 0 THEN Raised("IndexError", "")
        ELSE IF parts[Len(parts)] = S_ranking
             THEN IF Len(parts) < 2 THEN Raised("IndexError", "")
                  ELSE Returned(parts[Len(parts) - 1])
        ELSE IF Len(marked) = 0 THEN Raised("ValueError", "No matching URL part found")
        ELSE Returned(marked[1])

\* a variant of get_core_url_part that searches for the markers before it
\* looks at a trailing 'ranking'
get_core_url_part_markers_first(u) ==
    LET parts == url_parts(u)
        marked == SelectSeq(parts, is_marked)
    IN  IF Len(parts) = 0 THEN Raised("IndexError", "")
        ELSE IF Len(marked) = 1 THEN Returned(marked[1])
        ELSE IF parts[Len(parts)] = S_ranking
             THEN IF Len(parts) < 2 THEN Raised("IndexError", "")
                  ELSE Returned(parts[Len(parts) - 1])
        ELSE IF Len(marked) = 0 THEN Raised("ValueError", "No matching URL part found")
        ELSE Raised("ValueError", "More than one matching URL part found")

get_core_url_part(u) ==
    LET parts == url_parts(u)
        \* the generator (part for part in parts if ...), drained by next()
        marked == SelectSeq(parts, is_marked)
    IN  IF Len(parts) = 0 THEN Raised("IndexError", "")          \* parts[-1]
        ELSE IF parts[Len(parts)] = S_ranking
             THEN IF Len(parts) < 2 THEN Raised("IndexError", "") \* parts[-2]
                  ELSE Returned(parts[Len(parts) - 1])
        ELSE IF Len(marked) = 0 THEN Raised("ValueError", "No matching URL part found")
        ELSE IF Len(marked) >= 2
             THEN Raised("ValueError", "More than one matching URL part found")
        ELSE Returned(marked[1])

(***************************************************************************)
(* utils.predict_country_study_year.  The outcome is a record: exc is     *)
(* "none" on a normal return; ret tells whether None or a triple was       *)
(* returned; warning names the logger.warning the call made, if any.       *)
(***************************************************************************)
\* main.py's token maps, read from the workbook's country_map and study_map
country_map == (S_usa :> "United States") @@ (S_uk :> "United Kingdom")
study_map == (S_women :> "Women") @@ (S_startups :> "Startups")

exclusions == {S_best, S_beste, S_employers, S_arbeitgeber, S_the, S_feur}

Digits == {"0", "1", "2", "3", "4", "5", "6", "7", "8", "9"}

DigitValue ==
    ("0" :> 0) @@ ("1" :> 1) @@ ("2" :> 2) @@ ("3" :> 3) @@ ("4" :> 4) @@
    ("5" :> 5) @@ ("6" :> 6) @@ ("7" :> 7) @@ ("8" :> 8) @@ ("9" :> 9)

\* str.isdigit: false of the empty string
isdigit(t) == Len(t) > 0 /\ \A i \in 1..Len(t) : t[i] \in Digits

RECURSIVE int(_)
\* int(t) of a string of digits
int(t) == IF Len(t) = 0 THEN 0
          ELSE 10 * int(SubSeq(t, 1, Len(t) - 1)) + DigitValue[t[Len(t)]]

\* token.endswith('s')
endswith_s(t) == Len(t) > 0 /\ t[Len(t)] = "s"

\* list.remove(x): the list without the first element equal to x
remove(list, x) ==
    LET k == CHOOSE i \in 1..Len(list) :
                 list[i] = x /\ \A j \in 1..(i - 1) : list[j] # x
    IN  SubSeq(list, 1, k - 1) \o SubSeq(list, k + 1, Len(list))

\* len(token) == 4 and token.isdigit()
is_year_token(t) == Len(t) = 4 /\ isdigit(t)

NoPrediction ==
    [exc |-> "notcalled", ret |-> "None", country |-> "", study |-> "",
     year |-> 0, warning |-> ""]
ReturnedNone(w) ==
    [exc |-> "none", ret |-> "None", country |-> "", study |-> "",
     year |-> 0, warning |-> w]
ReturnedTriple(c, s, y) ==
    [exc |-> "none", ret |-> "triple", country |-> c, study |-> s,
     year |-> y, warning |-> ""]
RaisedUnbound ==
    [exc |-> "UnboundLocalError", ret |-> "None", country |-> "", study |-> "",
     year |-> 0, warning |-> ""]

\* the value of predicted_country before its first assignment
Unbound == "<unbound>"

RECURSIVE CountryLoop(_, _, _, _)
\* The country loop, from the list iterator's position i (1-based: the next
\* element the iterator yields) over the list as it is now.  A token found
\* in the map is removed from the list while the iterator moves on, so the
\* element that slides into its place is not visited.
CountryLoop(cmap, tokens, i, predicted_country) ==
    IF i > Len(tokens)
    THEN [how |-> "exhausted", tokens |-> tokens, country |-> predicted_country]
    ELSE LET token == tokens[i]
             singular == SubSeq(token, 1, Len(token) - 1)
         IN  IF token \in DOMAIN cmap
             THEN CountryLoop(cmap, remove(tokens, token), i + 1, cmap[token])
             ELSE IF endswith_s(token)
                  THEN IF singular \in DOMAIN cmap
                       THEN [how |-> "break", tokens |-> tokens,
                             country |-> cmap[singular]]
                       ELSE CountryLoop(cmap, tokens, i + 1, predicted_country)
             ELSE [how |-> "return", tokens |-> tokens, country |-> predicted_country]

\* a variant of StudyStep that takes 'best' when no token is a key of the
\* study map
StudyStep_default_best(smap, tokens, predicted_country, predicted_year) ==
    LET found == {i \in 1..Len(tokens) : tokens[i] \in DOMAIN smap}
        first == CHOOSE i \in found : \A j \in found : i <= j
        predicted_study == IF found = {} THEN "best" ELSE smap[tokens[first]]
    IN  IF predicted_year # 0 /\ predicted_country # "" /\ predicted_study # ""
        THEN ReturnedTriple(predicted_country, predicted_study, predicted_year)
        ELSE ReturnedNone("country, study and year")

\* the study step and the final check, given the year, the country and the
\* tokens left
StudyStep(smap, tokens, predicted_country, predicted_year) ==
    LET found == {i \in 1..Len(tokens) : tokens[i] \in DOMAIN smap}
        first == CHOOSE i \in found : \A j \in found : i <= j
        predicted_study == IF Len(tokens) = 0 THEN "best" ELSE smap[tokens[first]]
    IN  IF Len(tokens) # 0 /\ found = {} THEN ReturnedNone("study")
        ELSE IF predicted_year # 0 /\ predicted_country # "" /\ predicted_study # ""
             THEN ReturnedTriple(predicted_country, predicted_study, predicted_year)
        ELSE ReturnedNone("country, study and year")

predict_country_study_year(cp, cmap, smap) ==
    LET tokens0 == SelectSeq(split(cp, "-"), LAMBDA token : token \notin exclusions)
        years == {i \in 1..Len(tokens0) : is_year_token(tokens0[i])}
        yi == CHOOSE i \in years : \A j \in years : i <= j
        predicted_year == int(tokens0[yi])
        tokens1 == remove(tokens0, tokens0[yi])
        c == CountryLoop(cmap, tokens1, 1, Unbound)
    IN  IF years = {} THEN ReturnedNone("year")
        ELSE IF c.how = "return" THEN ReturnedNone("country")
        ELSE IF c.country = Unbound THEN RaisedUnbound
        ELSE StudyStep(smap, c.tokens, c.country, predicted_year)

\* a variant of arguments_after in which a token found in country_map is
\* popped from the dict
arguments_after_pop(cp, cmap, smap) ==
    LET tokens == split(cp, "-")
        found == {i \in 1..Len(tokens) : tokens[i] \in DOMAIN cmap}
    IN  [core_part |-> cp,
         country_map |-> [k \in DOMAIN cmap \ {tokens[i] : i \in found} |-> cmap[k]],
         study_map |-> smap]

\* The arguments as the call leaves them.  core_part is a str; tokens is a
\* new list (split, then a comprehension) and every remove is on it; the
\* dicts are only read (`in` and subscript).
arguments_after(cp, cmap, smap) ==
    [core_part |-> cp, country_map |-> cmap, study_map |-> smap]

RECURSIVE CountryVisited(_, _, _)
\* the tokens the body of the country loop runs on, in order, from the
\* iterator's position i over the list as it is now
CountryVisited(cmap, tokens, i) ==
    IF i > Len(tokens) THEN <<>>
    ELSE LET token == tokens[i]
             singular == SubSeq(token, 1, Len(token) - 1)
         IN  IF token \in DOMAIN cmap
             THEN <<token>> \o CountryVisited(cmap, remove(tokens, token), i + 1)
             ELSE IF endswith_s(token) /\ singular \notin DOMAIN cmap
             THEN <<token>> \o CountryVisited(cmap, tokens, i + 1)
             ELSE <<token>>                      \* break, or return None

\* The token lists of a call: the tokens after the exclusions, the token
\* taken as the year (has_year tells whether there is one), the list the
\* country loop starts on, the tokens its body ran on, how it ended, and
\* the list the study step is given.
predict_scan(cp, cmap, smap) ==
    LET tokens0 == SelectSeq(split(cp, "-"), LAMBDA token : token \notin exclusions)
        years == {i \in 1..Len(tokens0) : is_year_token(tokens0[i])}
        yi == CHOOSE i \in years : \A j \in years : i <= j
        tokens1 == remove(tokens0, tokens0[yi])
        c == CountryLoop(cmap, tokens1, 1, Unbound)
    IN  IF years = {}
        THEN [tokens |-> tokens0, has_year |-> FALSE, year_token |-> <<>>,
              country_scan |-> <<>>, visited |-> <<>>, how |-> "none",
              study_scan |-> <<>>]
        ELSE [tokens |-> tokens0, has_year |-> TRUE, year_token |-> tokens0[yi],
              country_scan |-> tokens1,
              visited |-> CountryVisited(cmap, tokens1, 1),
              how |-> c.how,
              study_scan |-> c.tokens]

(***************************************************************************)
(* scrape.clean_rows.  A raw cell is the text of a <td>, stripped; a cell  *)
(* of the DataFrame is a text or the missing value (None / NaN).  The      *)
(* outcome is a record: exc is "none" on a normal return, and then columns *)
(* are the column labels and records the rows, each a tuple in column      *)
(* order.                                                                  *)
(***************************************************************************)
S_nl == <<"\n">>
S_Founded == <<"F","o","u","n","d","e","d">>
S_CEO_nl == <<"C","E","O","\n">>
S_Headquarters_nl == <<"H","e","a","d","q","u","a","r","t","e","r","s","\n">>

V(text) == [na |-> FALSE, text |-> text]
NA == [na |-> TRUE, text |-> <<>>]

\* columns=['rank', 'company', 'employees', 'score', 'location', 'industry']
RawColumns == <<"rank", "company", "employees", "score", "location", "industry">>

\* df[['rank', 'company', 'founded', 'employees', 'score', 'ceo', 'state',
\*     'hq', 'industry']]
CleanColumns ==
    <<"rank", "company", "founded", "employees", "score", "ceo", "state",
      "hq", "industry">>

NoFrame == [exc |-> "notcalled", columns |-> <<>>, records |-> <<>>]
FrameRaised(e) == [exc |-> e, columns |-> <<>>, records |-> <<>>]
Frame(cols, recs) == [exc |-> "none", columns |-> cols, records |-> recs]

\* the first place at or after from where sub occurs in s, 0 when nowhere
find(s, sub, from) ==
    LET hits == {i \in from..(Len(s) - Len(sub) + 1) :
                     SubSeq(s, i, i + Len(sub) - 1) = sub}
    IN  IF hits = {} THEN 0 ELSE CHOOSE i \in hits : \A j \in hits : i <= j

\* [^\d]*([\d]+)? from place p: the first run of digits at or after p
first_digits(s, p) ==
    LET ds == {i \in p..Len(s) : s[i] \in Digits}
        d0 == CHOOSE i \in ds : \A j \in ds : i <= j
        d1 == CHOOSE j \in d0..Len(s) :
                  /\ \A k \in d0..j : s[k] \in Digits
                  /\ (j = Len(s) \/ s[j + 1] \notin Digits)
    IN  IF ds = {} THEN NA ELSE V(SubSeq(s, d0, d1))

\* pd.DataFrame(rows, columns): the rows padded with None to the longest
\* row; a ValueError when that width is not the number of columns
WidthOf(rs) ==
    LET lens == {Len(rs[i]) : i \in 1..Len(rs)}
    IN  CHOOSE n \in lens : \A m \in lens : m <= n

Padded(row, width) ==
    [c \in 1..width |-> IF c <= Len(row) THEN V(row[c]) ELSE NA]

\* str.extract(r"(?s)^(.*?)\n.*?Founded[^\d]*([\d]+)?") -> (company, founded)
extract_company(v) ==
    LET s == v.text
        nl == find(s, S_nl, 1)
        f == find(s, S_Founded, nl + 1)
    IN  IF v.na \/ nl = 0 \/ f = 0 THEN <<NA, NA>>
        ELSE <<V(SubSeq(s, 1, nl - 1)), first_digits(s, f + Len(S_Founded))>>

\* str.extract(r"(?s)^(.*?)\n.*?CEO[\n](.+)$") -> (score, ceo)
extract_score(v) ==
    LET s == v.text
        nl == find(s, S_nl, 1)
        c == find(s, S_CEO_nl, nl + 1)
    IN  IF v.na \/ nl = 0 \/ c = 0 \/ c + Len(S_CEO_nl) > Len(s) THEN <<NA, NA>>
        ELSE <<V(SubSeq(s, 1, nl - 1)), V(SubSeq(s, c + Len(S_CEO_nl), Len(s)))>>

\* str.extract(r'(?s)^(.*?)\n.*?(?:Headquarters\n(.*?))?$') -> (state, hq)
extract_location(v) ==
    LET s == v.text
        nl == find(s, S_nl, 1)
        h == find(s, S_Headquarters_nl, nl + 1)
    IN  IF v.na \/ nl = 0 THEN <<NA, NA>>
        ELSE <<V(SubSeq(s, 1, nl - 1)),
               IF h = 0 THEN NA
               ELSE V(SubSeq(s, h + Len(S_Headquarters_nl), Len(s)))>>

\* str.split('\n', expand=True)[k]: the k-th piece (1-based here), missing
\* for a missing cell and for a cell with fewer pieces
split_piece(v, k) ==
    IF v.na \/ Len(split(v.text, "\n")) < k THEN NA ELSE V(split(v.text, "\n")[k])

\* the number of columns of str.split('\n', expand=True)
split_width(column) ==
    LET ns == {IF column[i].na THEN 1 ELSE Len(split(column[i].text, "\n")) :
                   i \in 1..Len(column)}
    IN  CHOOSE n \in ns : \A m \in ns : m <= n

CleanRecord(r) ==
    <<r[1], extract_company(r[2])[1], extract_company(r[2])[2],
      split_piece(r[3], 2), extract_score(r[4])[1], extract_score(r[4])[2],
      extract_location(r[5])[1], extract_location(r[5])[2], split_piece(r[6], 1)>>

\* a variant of clean_rows that checks every row against the six columns
\* and truncates or pads instead of failing
clean_rows_reshape(rs) ==
    LET frame == [i \in 1..Len(rs) |-> Padded(rs[i], Len(RawColumns))]
    IN  IF Len(rs) = 0 THEN FrameRaised("IndexError")
        ELSE IF split_width([i \in 1..Len(rs) |-> frame[i][3]]) < 2
             THEN FrameRaised("KeyError")
        ELSE Frame(CleanColumns, [i \in 1..Len(rs) |-> CleanRecord(frame[i])])

clean_rows(rs) ==
    LET frame == [i \in 1..Len(rs) |-> Padded(rs[i], WidthOf(rs))]
    IN  IF Len(rs) = 0 THEN FrameRaised("IndexError")       \* rows[0]
        ELSE IF WidthOf(rs) # Len(RawColumns) THEN FrameRaised("ValueError")
        \* df['employees'].str.split('\n', expand=True)[1]
        ELSE IF split_width([i \in 1..Len(rs) |-> frame[i][3]]) < 2
             THEN FrameRaised("KeyError")
        ELSE Frame(CleanColumns, [i \in 1..Len(rs) |-> CleanRecord(frame[i])])

(***************************************************************************)
(* Raw rows of the model: texts as the site lays them out.                 *)
(***************************************************************************)
Row_acme ==
    <<<<"1">>,
      <<"A","c","m","e","\n","F","o","u","n","d","e","d"," ","1","9","9","0">>,
      <<"E","m","p","l","o","y","e","e","s","\n","1","0","0","0">>,
      <<"4",".","5","\n","C","E","O","\n","J","a","n","e">>,
      <<"N","Y","\n","H","e","a","d","q","u","a","r","t","e","r","s","\n","N","Y","C">>,
      <<"T","e","c","h","\n","S","o","f","t","w","a","r","e">>>>
Row_beta ==
    <<<<"2">>,
      <<"B","e","t","a">>,
      <<"5","0","0">>,
      <<"3",".","9">>,
      <<"T","X">>,
      <<"R","e","t","a","i","l">>>>
Row_short ==
    <<<<"3">>,
      <<"C","y","a","n","\n","F","o","u","n","d","e","d"," ","i","n"," ","2","0","0","1">>,
      <<"S","t","a","f","f","\n","2","0">>,
      <<"4",".","0","\n","C","E","O","\n","A","l">>,
      <<"C","A","\n","H","e","a","d","q","u","a","r","t","e","r","s","\n","L","A">>>>
Row_long ==
    <<<<"4">>,
      <<"D","u","n","e">>,
      <<"7","0">>,
      <<"3",".","1">>,
      <<"W","A">>,
      <<"F","o","o","d">>,
      <<"e","x","t","r","a">>>>


(***************************************************************************)
(* scrape.parse_table_html.  The page source is modelled by its two        *)
(* ranking tables: each is absent or a list of <tr>, a <tr> being the list *)
(* of the texts of its <td> cells (a header row of <th> cells has none).   *)
(***************************************************************************)
NoTable == [present |-> FALSE, trs |-> <<>>]
Table(trs) == [present |-> TRUE, trs |-> trs]

Whitespace == {" ", "\n", "\t"}

RECURSIVE lstrip(_)
lstrip(s) == IF Len(s) > 0 /\ s[1] \in Whitespace THEN lstrip(Tail(s)) ELSE s

RECURSIVE rstrip(_)
rstrip(s) ==
    IF Len(s) > 0 /\ s[Len(s)] \in Whitespace
    THEN rstrip(SubSeq(s, 1, Len(s) - 1)) ELSE s

\* str.strip()
strip(s) == rstrip(lstrip(s))

\* a variant of parse_table_html that prefers the local table
parse_table_html_local_first(html) ==
    LET table == IF html.local.present THEN html.local ELSE html.primary
    IN  IF ~table.present THEN <<>>
        ELSE [k \in 1..(Len(table.trs) - 1) |->
                 [c \in 1..Len(table.trs[k + 1]) |-> strip(table.trs[k + 1][c])]]

parse_table_html(html) ==
    LET \* soup.find(id=primary) or soup.find(id=local)
        table == IF html.primary.present THEN html.primary ELSE html.local
    IN  IF ~table.present THEN <<>>
        ELSE \* table.find_all("tr")[1:], the stripped text of each td
             [k \in 1..(Len(table.trs) - 1) |->
                 [c \in 1..Len(table.trs[k + 1]) |-> strip(table.trs[k + 1][c])]]

(***************************************************************************)
(* scrape.get_rows_from_url.  What the browser and the site do during one  *)
(* call is a record: start and select say how get_selenium_driver and the  *)
(* wait for the page-size drop-down end, npages is the number of           *)
(* pagination controls a[data-dt-idx=1..npages] on the page, failAt the    *)
(* page (0: none) whose click or wait raises, kind what the pages hold.    *)
(***************************************************************************)
\* range(1, 6): at most 5 pages
MaxPages == 5

PageKinds == {"primary", "local", "both", "none", "ragged", "plain", "long", "header"}

DigitChar == <<"1", "2", "3", "4", "5", "6", "7", "8", "9">>

\* the data row of page p: Row_acme with rank p and unstripped cells
RowOfPage(p) ==
    [c \in 1..Len(Row_acme) |->
        IF c = 1 THEN <<" ", DigitChar[p], "\n">> ELSE <<"\n">> \o Row_acme[c] \o <<" ">>]

HeaderTr == <<>>

\* driver.page_source after the click on page p
PageHtml(kind, p) ==
    CASE kind = "primary" -> [primary |-> Table(<<HeaderTr, RowOfPage(p)>>), local |-> NoTable]
      [] kind = "local" -> [primary |-> NoTable, local |-> Table(<<HeaderTr, RowOfPage(p)>>)]
      [] kind = "both" -> [primary |-> Table(<<HeaderTr, RowOfPage(p)>>),
                           local |-> Table(<<HeaderTr, Row_beta>>)]
      [] kind = "none" -> [primary |-> NoTable, local |-> NoTable]
      [] kind = "ragged" -> [primary |-> Table(<<HeaderTr, RowOfPage(p), Row_short>>),
                             local |-> NoTable]
      [] kind = "plain" -> [primary |-> Table(<<HeaderTr, Row_beta>>), local |-> NoTable]
      [] kind = "long" -> [primary |-> Table(<<HeaderTr, Row_long>>), local |-> NoTable]
      [] kind = "header" -> [primary |-> Table(<<HeaderTr>>),
                             local |-> Table(<<HeaderTr, Row_beta>>)]

Sites ==
    {[start |-> "ok", select |-> "ok", npages |-> n, failAt |-> f, kind |-> k] :
        n \in 0..MaxSitePages, f \in 0..MaxPages, k \in PageKinds}
    \cup {[start |-> "ok", select |-> e, npages |-> 0, failAt |-> 0, kind |-> "none"] :
        e \in {"NoSuchElementException", "TimeoutException"}}
    \cup {[start |-> "SessionNotCreatedException", select |-> "ok", npages |-> 0,
           failAt |-> 0, kind |-> "none"]}

\* The outcome of a call: exc is "none" on a return; none tells that None
\* was returned; opened and quit tell whether a browser session was
\* acquired and whether driver.quit() ran; visited counts the pages parsed.
Fetched(e, isnone, rs, opened, quit, visited) ==
    [exc |-> e, none |-> isnone, rows |-> rs, opened |-> opened, quit |-> quit,
     visited |-> visited]

\* a variant of extend that puts the new rows first
extend_front(list, more) == more \o list

\* rows.extend(more)
extend(list, more) == list \o more

RECURSIVE PagesLoop(_, _, _)
\* for page in range(1, 6), from page on, with the rows gathered so far
PagesLoop(site, page, rs) ==
    IF page > MaxPages \/ page > site.npages
    THEN Fetched("none", FALSE, rs, TRUE, TRUE, page - 1)       \* driver.quit()
    ELSE IF site.failAt = page
    THEN Fetched("TimeoutException", FALSE, <<>>, TRUE, FALSE, page - 1)
    ELSE PagesLoop(site, page + 1,
                   extend(rs, parse_table_html(PageHtml(site.kind, page))))

\* a variant of get_rows_from_url that quits the driver in a finally
get_rows_from_url_finally(site) ==
    LET r == IF site.select = "NoSuchElementException"
             THEN Fetched("none", TRUE, <<>>, TRUE, TRUE, 0)
             ELSE IF site.select # "ok"
             THEN Fetched(site.select, FALSE, <<>>, TRUE, TRUE, 0)
             ELSE PagesLoop(site, 1, <<>>)
    IN  IF site.start # "ok" THEN Fetched(site.start, FALSE, <<>>, FALSE, FALSE, 0)
        ELSE [r EXCEPT !.quit = TRUE]

get_rows_from_url(site) ==
    IF site.start # "ok"          \* get_selenium_driver() raised
    THEN Fetched(site.start, FALSE, <<>>, FALSE, FALSE, 0)
    ELSE IF site.select = "NoSuchElementException"
    THEN Fetched("none", TRUE, <<>>, TRUE, FALSE, 0)              \* return None
    ELSE IF site.select # "ok"
    THEN Fetched(site.select, FALSE, <<>>, TRUE, FALSE, 0)
    ELSE PagesLoop(site, 1, <<>>)

(***************************************************************************)
(* scrape.safe_execute and scrape.to_csv.  to_csv is given the file       *)
(* system and the outcome get_rows_from_url has if it is called; it tells  *)
(* the file system it leaves and what it did.                              *)
(***************************************************************************)
NoFile == [exists |-> FALSE, header |-> <<>>, lines |-> <<>>]

\* df.to_csv(filename, index=False): a header line, then one line per
\* record, a missing value written as the empty field
csv_of(frame) ==
    [exists |-> TRUE,
     header |-> frame.columns,
     lines |-> [i \in 1..Len(frame.records) |->
                   [c \in 1..Len(frame.records[i]) |->
                       IF frame.records[i][c].na THEN <<>>
                       ELSE frame.records[i][c].text]]]

NoFetch == Fetched("notcalled", FALSE, <<>>, FALSE, FALSE, 0)

\* the values force_refresh is called with: False, True and the truthy 1
ForceValues == {"False", "True", "1"}

\* a variant of must_download that tests force_refresh for truth
must_download_truthy(exists, force_refresh) ==
    ~exists \/ force_refresh # "False"

\* not exists(filename) or force_refresh is True
must_download(exists, force_refresh) ==
    ~exists \/ force_refresh = "True"

\* a variant of safe_execute that lets the exception through
safe_execute_reraise(fetched) ==
    [exc |-> fetched.exc, none |-> fetched.none, rows |-> fetched.rows]

\* safe_execute(get_rows_from_url, url): the rows, or None after any
\* exception
safe_execute(fetched) ==
    IF fetched.exc # "none" THEN [exc |-> "none", none |-> TRUE, rows |-> <<>>]
    ELSE [exc |-> "none", none |-> fetched.none, rows |-> fetched.rows]

\* a variant of rows_truthy that only tests for None
rows_not_none(r) == ~r.none

\* if rows:
rows_truthy(r) == ~r.none /\ Len(r.rows) > 0

ToCsvResult(fs, e, fetched, cleaned, wrote) ==
    [fs |-> fs, exc |-> e, fetched |-> fetched,
     fetches |-> IF fetched.exc = "notcalled" THEN 0 ELSE 1,
     cleaned |-> cleaned, wrote |-> wrote]

to_csv(fs, u, filename, force_refresh, fetched) ==
    LET r == safe_execute(fetched)
        frame == clean_rows(r.rows)
    IN  IF ~must_download(fs[filename].exists, force_refresh)
        THEN ToCsvResult(fs, "none", NoFetch, FALSE, FALSE)
        ELSE IF r.exc # "none" THEN ToCsvResult(fs, r.exc, fetched, FALSE, FALSE)
        ELSE IF ~rows_truthy(r) THEN ToCsvResult(fs, "none", fetched, FALSE, FALSE)
        ELSE IF frame.exc # "none" THEN ToCsvResult(fs, frame.exc, fetched, TRUE, FALSE)
        ELSE ToCsvResult([fs EXCEPT ![filename] = csv_of(frame)], "none", fetched,
                         TRUE, TRUE)

\* a browser session get_rows_from_url acquired and did not quit
Leaked(fetched) == IF fetched.opened /\ ~fetched.quit THEN 1 ELSE 0

NoCall ==
    [made |-> FALSE, url |-> <<>>, filename |-> "", force_refresh |-> "False",
     before |-> <<>>, exc |-> "none", fetched |-> NoFetch, fetches |-> 0,
     cleaned |-> FALSE, wrote |-> FALSE]

CallRecord(u, filename, force_refresh, before, r) ==
    [made |-> TRUE, url |-> u, filename |-> filename,
     force_refresh |-> force_refresh, before |-> before, exc |-> r.exc,
     fetched |-> r.fetched, fetches |-> r.fetches, cleaned |-> r.cleaned,
     wrote |-> r.wrote]

(***************************************************************************)
(* scrape.get_available_rankings.  What the browser and the listing page  *)
(* do during the call is a record: anchors are the hrefs of the page's <a> *)
(* elements, valid those whose page has a 'Rank' column header, order the  *)
(* order list(set(...)) gives the hrefs, fail how the session fails, if it *)
(* does.                                                                   *)
(***************************************************************************)
S_claim == <<"c","l","a","i","m">>
S_scheme_host == <<":", "/", "/">> \o S_host

S_base ==
    S_https \o <<"/", "/">> \o S_host \o S_slash \o S_en \o S_slash \o S_employers
        \o S_slash

S_best_employers == S_best \o S_dash \o S_employers \o S_dash

\* https://r.statista.com/en/employers/best-employers-usa-2023/ranking/
S_url_usa == S_base \o S_best_employers \o S_usa \o S_dash \o S_2023 \o S_slash
                 \o S_ranking \o S_slash
\* the same ranking, linked without the trailing ranking/
S_url_usa_plain == S_base \o S_best_employers \o S_usa \o S_dash \o S_2023 \o S_slash
S_url_uk == S_base \o S_best_employers \o S_uk \o S_dash \o S_2022 \o S_slash
                \o S_ranking \o S_slash
S_url_uk_plain == S_base \o S_best_employers \o S_uk \o S_dash \o S_2022 \o S_slash
\* a ranking whose core part names no year
S_url_uk_noyear == S_base \o S_best_employers \o S_uk \o S_slash \o S_ranking \o S_slash
\* a ranking of a study: best-employers-usa-women-2023
S_url_women == S_base \o S_best_employers \o S_usa \o S_dash \o S_women \o S_dash
                   \o S_2023 \o S_slash \o S_ranking \o S_slash
\* the listing page itself: no segment carries a marker
S_url_listing == S_base
S_url_claim == S_base \o S_claim \o S_slash
S_url_other == S_https \o <<"/", "/">> \o <<"w", "w", "w", ".">> \o S_host \o S_slash

Hrefs == {S_url_usa, S_url_usa_plain, S_url_uk, S_url_uk_noyear, S_url_women,
          S_url_listing, S_url_claim, S_url_other}

Range(f) == {f[i] : i \in 1..Len(f)}

\* the sequences that list each element of the set S once
Orders(S) ==
    {f \in [1..Cardinality(S) -> S] : \A i, j \in 1..Cardinality(S) :
                                          i # j => f[i] # f[j]}

ListingPages ==
    UNION {{[anchors |-> a, valid |-> v, order |-> o, fail |-> "none"] :
               v \in SUBSET a, o \in Orders(a)} :
           a \in {x \in SUBSET Hrefs : Cardinality(x) <= MaxLinks}}

Discovered(e, ls, opened, quit) ==
    [exc |-> e, links |-> ls, opened |-> opened, quit |-> quit]

\* //a[contains(@href, '://r.statista.com') and contains(@href, 'employers')]
\* and then: if 'claim' not in href
is_ranking_href(href) ==
    /\ contains(href, S_scheme_host)
    /\ contains(href, S_employers)
    /\ ~contains(href, S_claim)

\* a variant of get_available_rankings that quits the driver in a finally
get_available_rankings_finally(page) ==
    LET href_list == SelectSeq(page.order,
                               LAMBDA h : h \in page.anchors /\ is_ranking_href(h))
        validated == SelectSeq(href_list, LAMBDA h : h \in page.valid)
    IN  IF page.fail = "SessionNotCreatedException"
        THEN Discovered(page.fail, <<>>, FALSE, FALSE)
        ELSE IF page.fail # "none" THEN Discovered(page.fail, <<>>, TRUE, TRUE)
        ELSE Discovered("none", validated, TRUE, TRUE)

get_available_rankings(page) ==
    LET \* list(set(href for link in links if 'claim' not in href))
        href_list == SelectSeq(page.order,
                               LAMBDA h : h \in page.anchors /\ is_ranking_href(h))
        \* [link for link in href_list if is_valid_ranking_page(driver, link)]
        validated == SelectSeq(href_list, LAMBDA h : h \in page.valid)
    IN  IF page.fail = "SessionNotCreatedException"
        THEN Discovered(page.fail, <<>>, FALSE, FALSE)
        ELSE IF page.fail # "none" THEN Discovered(page.fail, <<>>, TRUE, FALSE)
        ELSE Discovered("none", validated, TRUE, TRUE)       \* driver.quit()

(***************************************************************************)
(* utils.add_new_dataset and the registry.  A row of the datasets sheet   *)
(* holds the columns the script reads or writes.                           *)
(***************************************************************************)
Row(u, country, study, year, filename, link_valid, whenAdded) ==
    [url |-> u, country |-> country, study |-> study, year |-> year,
     filename |-> filename, link_valid |-> link_valid, added |-> whenAdded]

RegistryRows ==
    {Row(S_url_usa, "United States", "best", 2023, "data\\usa_2023.csv", v, "then") :
        v \in {0, 1}}
    \cup {Row(S_url_uk_plain, "United Kingdom", "best", 2022, "data\\uk_2022.csv", v,
              "then") : v \in {0, 1}}
    \cup {Row(S_url_listing, "", "", 0, "data\\all.csv", 0, "then")}

CsvPath(filename) == "..\\" \o filename

CsvNames == {CsvPath(r.filename) : r \in RegistryRows}

Registries ==
    {rs \in UNION {[1..n -> RegistryRows] : n \in 0..MaxRegistry} :
        \A i, j \in 1..Len(rs) : i # j => rs[i].url # rs[j].url}

\* the row add_new_dataset builds from data_dict: link_valid is 1, added is
\* datetime.now(), a formula column holds its formula
NewRow(data_dict) ==
    Row(data_dict.url, data_dict.country, data_dict.study, data_dict.year,
        "=formula", 1, "now")

\* a variant of add_new_dataset that replaces the last row
add_new_dataset_overwrite(rs, data_dict) ==
    IF Len(rs) = 0 THEN <<NewRow(data_dict)>>
    ELSE [rs EXCEPT ![Len(rs)] = NewRow(data_dict)]

\* sheet.append(data_list), the table range extended, workbook.save
add_new_dataset(rs, data_dict) == Append(rs, NewRow(data_dict))

(***************************************************************************)
(* utils.add_new_dataset on the sheet itself.  The datasets sheet is the   *)
(* header in row 1 and the rows below it (body: row k of body is sheet row *)
(* k + 1); the table 'datasets' covers the rows 1..ref_last; columns are   *)
(* table.tableColumns, each with its name and its calculatedColumnFormula. *)
(* A cell is None, a str, an int or a datetime.                            *)
(***************************************************************************)
NoneCell == [kind |-> "None", s |-> "", n |-> 0]
StrCell(x) == [kind |-> "str", s |-> x, n |-> 0]
IntCell(k) == [kind |-> "int", s |-> "", n |-> k]
TimeCell(t) == [kind |-> "datetime", s |-> t, n |-> 0]

NoFormula == [has |-> FALSE, text |-> ""]
Formula(text) == [has |-> TRUE, text |-> text]
Column(name, formula) == [name |-> name, formula |-> formula]

\* sheet.max_row: the header row and every row below it that holds a cell
max_row(wb) == 1 + Len(wb.body)

\* the loop over table.tableColumns that builds data_list
data_list(columns, data_dict) ==
    [c \in 1..Len(columns) |->
        IF columns[c].name \in DOMAIN data_dict THEN data_dict[columns[c].name]
        ELSE IF columns[c].name = "added" THEN TimeCell("now")     \* datetime.now()
        ELSE IF columns[c].name = "link_valid" THEN IntCell(1)
        ELSE IF columns[c].formula.has THEN StrCell("=" \o columns[c].formula.text)
        ELSE NoneCell]

\* a variant of add_new_dataset_sheet that writes the row below the
\* table's last row and extends the range by one row
add_new_dataset_below_table(wb, data_dict) ==
    [wb EXCEPT !.body = SubSeq(wb.body, 1, wb.ref_last - 1)
                            \o <<data_list(wb.columns, data_dict)>>
                            \o SubSeq(wb.body, wb.ref_last, Len(wb.body)),
               !.ref_last = wb.ref_last + 1]

\* sheet.append(data_list) writes the row below the last row of the sheet;
\* table.ref = f'{tl}:{alpha}{sheet.max_row}'; workbook.save(filepath).
\* On a sheet whose last row is the table's last row the table's rows
\* become add_new_dataset(rows, data_dict).
add_new_dataset_sheet(wb, data_dict) ==
    LET appended == [wb EXCEPT !.body = Append(wb.body,
                                               data_list(wb.columns, data_dict))]
    IN  [appended EXCEPT !.ref_last = max_row(appended)]

(***************************************************************************)
(* main.py: the reconciliation of the discovered links with the registry.  *)
(***************************************************************************)
\* a variant of is_known that compares whole urls
is_known_by_url(dsets, link) ==
    \E j \in 1..Len(dsets) : dsets[j].url = link

\* (core_parts == utils.get_core_url_part(link)).any()
is_known(dsets, link) ==
    \E j \in 1..Len(dsets) :
        get_core_url_part(dsets[j].url).value = get_core_url_part(link).value

\* a variant of new_urls_of that takes every discovered link as new
new_urls_of_all(dsets, ls) == ls

\* new_urls = {k: v for k, v in output.items() if not v}, keys in order
new_urls_of(dsets, ls) == SelectSeq(ls, LAMBDA link : ~is_known(dsets, link))

\* the exception datasets.url.apply(get_core_url_part) or the dict
\* comprehension over links ends with, "none" when none does
ReconcileError(dsets, ls) ==
    LET bad_rows == {j \in 1..Len(dsets) : get_core_url_part(dsets[j].url).exc # "none"}
        bad_links == {i \in 1..Len(ls) : get_core_url_part(ls[i]).exc # "none"}
        j0 == CHOOSE j \in bad_rows : \A k \in bad_rows : j <= k
        i0 == CHOOSE i \in bad_links : \A k \in bad_links : i <= k
    IN  IF bad_rows # {} THEN get_core_url_part(dsets[j0].url).exc
        ELSE IF bad_links # {} THEN get_core_url_part(ls[i0]).exc
        ELSE "none"

NotAdded == [made |-> FALSE, url |-> <<>>, prediction |-> NoPrediction]

\* a variant of valid_rows without the filter on link_valid
valid_rows_all(dsets) == dsets

\* datasets.loc[datasets.link_valid == 1]
valid_rows(dsets) == SelectSeq(dsets, LAMBDA row : row.link_valid = 1)

(***************************************************************************)
(* The state of a variable group while another specification runs.         *)
(***************************************************************************)
IdleUrl ==
    /\ url = <<>>
    /\ core = NotCalled

IdleClassify ==
    /\ core_part = <<>>
    /\ prediction = NoPrediction
    /\ country_map_arg = country_map
    /\ study_map_arg = study_map
    /\ calls = 0

IdleClean ==
    /\ rows = <<>>
    /\ df = NoFrame

IdleScrape ==
    /\ files = <<>>
    /\ open_sessions = 0
    /\ call = NoCall

\* get_rows_from_url not called: where the call is (at), the value of the
\* page-size drop-down, the loop variable page, the rows gathered, the
\* pages parsed in order, and the outcome once the call has ended
NoFetchCall ==
    [at |-> "idle", selected |-> "10", page |-> 0, rows |-> <<>>, visits |-> <<>>,
     result |-> NoFetch]

IdleFetch ==
    /\ web_site = [start |-> "ok", select |-> "ok", npages |-> 0, failAt |-> 0,
                   kind |-> "none"]
    /\ fetch = NoFetchCall

\* no sheet loaded, add_new_dataset not called
IdleSheet ==
    /\ workbook = [columns |-> <<>>, body |-> <<>>, ref_last |-> 1]
    /\ appends = <<>>

IdleMain ==
    /\ pc = "idle"
    /\ status = "running"
    /\ registry = <<>>
    /\ datasets = <<>>
    /\ links = <<>>
    /\ new_urls = <<>>
    /\ idx = 1
    /\ added = NotAdded
    /\ data_json = FALSE
    /\ io_log = <<>>

(***************************************************************************)
(* SpecUrl: get_core_url_part applied to every url of up to MaxSegs raw    *)
(* segments drawn from UrlSegments, joined by '/'.                         *)
(***************************************************************************)
S_core_usa == S_best \o S_dash \o S_usa \o S_dash \o S_2023
S_core_uk == S_employers_dash \o S_uk

UrlSegments == {S_empty, S_https, S_en, S_employers, S_core_usa, S_core_uk, S_ranking}

RawSegmentLists == UNION {[1..n -> UrlSegments] : n \in 0..MaxSegs}

UrlInputs == {join(segs, S_slash) : segs \in RawSegmentLists}

InitUrl ==
    /\ url \in UrlInputs
    /\ core = NotCalled
    /\ IdleClassify
    /\ IdleClean
    /\ IdleScrape
    /\ IdleMain
    /\ IdleFetch
    /\ IdleSheet

CallGetCoreUrlPart ==
    /\ core.exc = "notcalled"
    /\ core' = get_core_url_part(url)
    /\ UNCHANGED <<sheetVars, fetchVars, url, classifyVars, cleanVars, scrapeVars, mainVars>>

NextUrl == CallGetCoreUrlPart

SpecUrl == InitUrl /\ [][NextUrl]_vars

(***************************************************************************)
(* SpecClassify: predict_country_study_year applied to every core part of  *)
(* up to MaxTokens tokens drawn from Tokens, joined by '-'.                *)
(***************************************************************************)
Tokens == {S_best, S_usa, S_uk, S_usas, S_women, S_startups,
           S_2023, S_2022, S_0000, S_xyz}

TokenLists == UNION {[1..n -> Tokens] : n \in 0..MaxTokens}

CorePartInputs == {join(toks, S_dash) : toks \in TokenLists}

InitClassify ==
    /\ core_part \in CorePartInputs
    /\ prediction = NoPrediction
    /\ country_map_arg = country_map
    /\ study_map_arg = study_map
    /\ calls = 0
    /\ IdleUrl
    /\ IdleClean
    /\ IdleScrape
    /\ IdleMain
    /\ IdleFetch
    /\ IdleSheet

CallPredict ==
    /\ calls < MaxCalls
    /\ prediction' = predict_country_study_year(core_part, country_map_arg,
                                                study_map_arg)
    /\ LET after == arguments_after(core_part, country_map_arg, study_map_arg)
       IN  /\ core_part' = after.core_part
           /\ country_map_arg' = after.country_map
           /\ study_map_arg' = after.study_map
    /\ calls' = calls + 1
    /\ UNCHANGED <<sheetVars, fetchVars, urlVars, cleanVars, scrapeVars, mainVars>>

NextClassify == CallPredict

SpecClassify == InitClassify /\ [][NextClassify]_vars

(***************************************************************************)
(* SpecClean: clean_rows applied to every list of up to MaxRows raw rows   *)
(* drawn from RawRows.                                                     *)
(***************************************************************************)
RawRows == {Row_acme, Row_beta, Row_short, Row_long}

RowLists == UNION {[1..n -> RawRows] : n \in 0..MaxRows}

InitClean ==
    /\ rows \in RowLists
    /\ df = NoFrame
    /\ IdleUrl
    /\ IdleClassify
    /\ IdleScrape
    /\ IdleMain
    /\ IdleFetch
    /\ IdleSheet

CallCleanRows ==
    /\ df.exc = "notcalled"
    /\ df' = clean_rows(rows)
    /\ UNCHANGED <<sheetVars, fetchVars, rows, urlVars, classifyVars, scrapeVars, mainVars>>

NextClean == CallCleanRows

SpecClean == InitClean /\ [][NextClean]_vars

(***************************************************************************)
(* SpecToCsv: one call of to_csv, with any of the force_refresh values, on *)
(* a disk where each CSV file is there or not, against any site.           *)
(***************************************************************************)
OldCsv ==
    [exists |-> TRUE, header |-> CleanColumns,
     lines |-> << [c \in 1..Len(CleanColumns) |-> <<"0">>] >>]

\* every outcome get_rows_from_url has against the sites of the model
FetchOutcomes == {get_rows_from_url(site) : site \in Sites}

InitToCsv ==
    /\ files \in [CsvNames -> {NoFile, OldCsv}]
    /\ open_sessions = 0
    /\ call = NoCall
    /\ IdleUrl
    /\ IdleClassify
    /\ IdleClean
    /\ IdleMain
    /\ IdleFetch
    /\ IdleSheet

CallToCsv ==
    /\ ~call.made
    /\ \E filename \in CsvNames, force_refresh \in ForceValues,
          fetched \in FetchOutcomes :
          LET r == to_csv(files, S_url_usa, filename, force_refresh, fetched)
          IN  /\ files' = r.fs
              /\ open_sessions' = open_sessions + Leaked(r.fetched)
              /\ call' = CallRecord(S_url_usa, filename, force_refresh, files, r)
    /\ UNCHANGED <<sheetVars, fetchVars, urlVars, classifyVars, cleanVars, mainVars>>

NextToCsv == CallToCsv

SpecToCsv == InitToCsv /\ [][NextToCsv]_vars

(***************************************************************************)
(* SpecAppend: calls of add_new_dataset on a datasets sheet of up to       *)
(* MaxRegistry table rows, with or without rows below the table.           *)
(***************************************************************************)
\* the columns of the table: the names main.py reads (its dtypes), filename
\* and chart_title calculated or not
ColumnLists ==
    {<<Column("country", NoFormula), Column("study", NoFormula),
       Column("year", NoFormula), Column("url", NoFormula),
       Column("filename", f), Column("link_valid", NoFormula),
       Column("added", NoFormula), Column("chart_title", g),
       Column("comment", NoFormula)>> :
        f \in {Formula("[@country] & [@year]")},
        g \in {NoFormula, Formula("[@study] & [@year]")}}

\* the k-th row the table already holds
ExistingRow(columns, k) ==
    [c \in 1..Len(columns) |->
        IF columns[c].name = "year" THEN IntCell(2020 + k)
        ELSE IF columns[c].name = "link_valid" THEN IntCell(k % 2)
        ELSE IF columns[c].name = "added" THEN TimeCell("then")
        ELSE IF columns[c].name = "comment" THEN NoneCell
        ELSE StrCell("old")]

\* what the sheet holds below the table: nothing, a note, or an empty
\* formatted row and a note
RowsBelowTable == {<<>>, <<<<StrCell("note")>>>>, <<<<>>, <<StrCell("note")>>>>}

Workbooks ==
    {[columns |-> cols,
      body |-> [k \in 1..n |-> ExistingRow(cols, k)] \o below,
      ref_last |-> 1 + n] :
        cols \in ColumnLists, n \in 0..MaxRegistry, below \in RowsBelowTable}

\* data_dict as main.py builds it: country, study, year and url
DataDicts ==
    {[country |-> StrCell("United States"), study |-> StrCell("best"),
      year |-> IntCell(2023), url |-> StrCell("best-employers-usa-2023")],
     [country |-> StrCell("United Kingdom"), study |-> StrCell("Women"),
      year |-> IntCell(2022), url |-> StrCell("best-employers-uk-women-2022")]}

InitAppend ==
    /\ workbook \in Workbooks
    /\ appends = <<>>
    /\ IdleUrl
    /\ IdleClassify
    /\ IdleClean
    /\ IdleScrape
    /\ IdleMain
    /\ IdleFetch

\* a call of add_new_dataset: the workbook is saved, or load_workbook or
\* workbook.save raises and the file stays as it was
CallAddNewDataset ==
    /\ Len(appends) < MaxLinks
    /\ \E data_dict \in DataDicts, io \in {"ok", "PermissionError"} :
          /\ appends' = Append(appends, [data_dict |-> data_dict, exc |-> io])
          /\ workbook' = IF io = "ok" THEN add_new_dataset_sheet(workbook, data_dict)
                         ELSE workbook
    /\ UNCHANGED <<urlVars, classifyVars, cleanVars, scrapeVars, mainVars, fetchVars>>

NextAppend == CallAddNewDataset

SpecAppend == InitAppend /\ [][NextAppend]_vars

(***************************************************************************)
(* SpecFetch: one call of get_rows_from_url, statement by statement.       *)
(***************************************************************************)
InitFetch ==
    /\ web_site \in Sites
    /\ fetch = [NoFetchCall EXCEPT !.at = "start"]
    /\ IdleSheet
    /\ IdleUrl
    /\ IdleClassify
    /\ IdleClean
    /\ IdleScrape
    /\ IdleMain

\* the call ends with this outcome
EndFetch(result) == fetch' = [fetch EXCEPT !.at = "done", !.result = result]

\* driver = get_selenium_driver(); driver.get(url)
StartDriver ==
    /\ fetch.at = "start"
    /\ IF web_site.start # "ok"
       THEN EndFetch(Fetched(web_site.start, FALSE, <<>>, FALSE, FALSE, 0))
       ELSE fetch' = [fetch EXCEPT !.at = "select"]
    /\ UNCHANGED <<sheetVars, web_site, urlVars, classifyVars, cleanVars, scrapeVars,
                   mainVars>>

\* the try block: the wait for the drop-down and select_by_value('100')
SelectPageSize ==
    /\ fetch.at = "select"
    /\ IF web_site.select = "NoSuchElementException"
       THEN EndFetch(Fetched("none", TRUE, <<>>, TRUE, FALSE, 0))      \* return None
       ELSE IF web_site.select # "ok"
       THEN EndFetch(Fetched(web_site.select, FALSE, <<>>, TRUE, FALSE, 0))
       ELSE fetch' = [fetch EXCEPT !.at = "loop", !.selected = "100", !.page = 1]
    /\ UNCHANGED <<sheetVars, web_site, urlVars, classifyVars, cleanVars, scrapeVars,
                   mainVars>>

\* one pass of `for page in range(1, 6)` that finds the pagination link
VisitPage ==
    /\ fetch.at = "loop"
    /\ fetch.page <= MaxPages
    /\ fetch.page <= web_site.npages
    /\ IF web_site.failAt = fetch.page
       THEN EndFetch(Fetched("TimeoutException", FALSE, <<>>, TRUE, FALSE,
                             fetch.page - 1))
       ELSE fetch' = [fetch EXCEPT
                !.rows = extend(fetch.rows,
                                parse_table_html(PageHtml(web_site.kind, fetch.page))),
                !.visits = Append(fetch.visits, fetch.page),
                !.page = fetch.page + 1]
    /\ UNCHANGED <<sheetVars, web_site, urlVars, classifyVars, cleanVars, scrapeVars,
                   mainVars>>

\* the break, or the end of range(1, 6); then driver.quit() and return rows
LeaveLoop ==
    /\ fetch.at = "loop"
    /\ fetch.page > MaxPages \/ fetch.page > web_site.npages
    /\ EndFetch(Fetched("none", FALSE, fetch.rows, TRUE, TRUE, fetch.page - 1))
    /\ UNCHANGED <<sheetVars, web_site, urlVars, classifyVars, cleanVars, scrapeVars,
                   mainVars>>

NextFetch ==
    \/ StartDriver
    \/ SelectPageSize
    \/ VisitPage
    \/ LeaveLoop

\* a statement that can run does run: the waits of the code are bounded
SpecFetch == InitFetch /\ [][NextFetch]_vars /\ WF_vars(NextFetch)

(***************************************************************************)
(* Spec: one run of main.py, from a registry of up to MaxRegistry rows   *)
(* with pairwise distinct core parts and a disk where each CSV file is     *)
(* there or not.  The registry main.py reads and the workbook              *)
(* add_new_dataset appends to are taken to be the same file.               *)
(***************************************************************************)
DiscoverOutcomes ==
    {get_available_rankings(page) : page \in ListingPages}
    \cup {get_available_rankings([anchors |-> {}, valid |-> {}, order |-> <<>>,
                                  fail |-> e]) :
            e \in {"SessionNotCreatedException", "WebDriverException"}}

\* what get_rows_from_url does in a run: the outcomes on the sites of at
\* most one page (SpecToCsv has those of more pages)
RunOutcomes == {o \in FetchOutcomes : o.visited <= 1 /\ Len(o.rows) <= 2}

\* the disk a run starts on: at most one of the CSV files is there
RunDisks ==
    {fs \in [CsvNames -> {NoFile, OldCsv}] :
        \A f, g \in CsvNames : (fs[f].exists /\ fs[g].exists) => f = g}

Init ==
    /\ pc = "load"
    /\ status = "running"
    /\ registry \in Registries
    /\ datasets = <<>>
    /\ links = <<>>
    /\ new_urls = <<>>
    /\ idx = 1
    /\ added = NotAdded
    /\ data_json = FALSE
    /\ io_log = <<>>
    /\ files \in RunDisks
    /\ open_sessions = 0
    /\ call = NoCall
    /\ IdleUrl
    /\ IdleClassify
    /\ IdleClean
    /\ IdleFetch
    /\ IdleSheet

\* an entry of io_log: the operation and the url it is for
Op(op, u) == [op |-> op, url |-> u]

\* the operations of a call of to_csv, in order: the call, the browser
\* session of its fetch, the write of the CSV file
ToCsvOps(u, r) ==
    <<Op("to_csv", u)>>
        \o (IF r.fetched.opened THEN <<Op("browser session", u)>> ELSE <<>>)
        \o (IF r.wrote THEN <<Op("csv write", u)>> ELSE <<>>)

Crash(e) ==
    /\ status' = e
    /\ pc' = "done"

\* a variant of the registry load that logs the failure and carries on
\* with no rows
registry_load_continue(rs, io) ==
    [pc |-> "discover", status |-> "running",
     datasets |-> IF io = "ok" THEN rs ELSE <<>>,
     op |-> IF io = "ok" THEN "registry read" ELSE "registry read failed"]

\* main.py lines 14-39: the workbook is read into datasets, or the error
\* is logged and the run ends with sys.exit(1)
registry_load(rs, io) ==
    IF io = "ok"
    THEN [pc |-> "discover", status |-> "running", datasets |-> rs,
          op |-> "registry read"]
    ELSE [pc |-> "done", status |-> "exit 1", datasets |-> <<>>,
          op |-> "registry read failed"]

\* main.py lines 14-61: the workbook is opened and its sheets are read
LoadRegistry ==
    /\ pc = "load"
    /\ \E io \in {"ok", "FileNotFoundError", "sheet not found", "ValueError"} :
          LET r == registry_load(registry, io)
          IN  /\ datasets' = r.datasets
              /\ pc' = r.pc
              /\ status' = r.status
              /\ io_log' = Append(io_log, Op(r.op, <<>>))
    /\ UNCHANGED <<registry, links, new_urls, idx, added, data_json>>
    /\ UNCHANGED <<sheetVars, fetchVars, urlVars, classifyVars, cleanVars, scrapeVars>>

\* links = ws.get_available_rankings()
GetAvailableRankings ==
    /\ pc = "discover"
    /\ \E o \in DiscoverOutcomes :
          /\ open_sessions' = open_sessions + Leaked(o)
          /\ io_log' = IF o.opened
                       THEN Append(io_log, Op("browser session", S_url_listing))
                       ELSE io_log
          /\ IF o.exc = "none"
             THEN /\ links' = o.links
                  /\ pc' = "reconcile"
                  /\ status' = status
             ELSE /\ Crash(o.exc)
                  /\ links' = links
    /\ UNCHANGED <<registry, datasets, new_urls, idx, added, data_json>>
    /\ UNCHANGED <<sheetVars, fetchVars, urlVars, classifyVars, cleanVars, files, call>>

\* main.py lines 68-75: core_parts, output and new_urls
Reconcile ==
    /\ pc = "reconcile"
    /\ IF ReconcileError(datasets, links) # "none"
       THEN /\ Crash(ReconcileError(datasets, links))
            /\ new_urls' = new_urls
       ELSE /\ new_urls' = new_urls_of(datasets, links)
            /\ pc' = "add"
            /\ status' = status
    /\ idx' = 1
    /\ UNCHANGED <<registry, datasets, links, added, data_json, io_log>>
    /\ UNCHANGED <<sheetVars, fetchVars, urlVars, classifyVars, cleanVars, scrapeVars>>

\* the else of `if new_urls:`: nothing new, sys.exit(0)
NoNewUrls ==
    /\ pc = "add"
    /\ Len(new_urls) = 0
    /\ Crash("exit 0")
    /\ UNCHANGED <<registry, datasets, links, new_urls, idx, added, data_json, io_log>>
    /\ UNCHANGED <<sheetVars, fetchVars, urlVars, classifyVars, cleanVars, scrapeVars>>

\* one pass of `for url in new_urls:`
AddNewUrl ==
    /\ pc = "add"
    /\ idx <= Len(new_urls)
    /\ LET u == new_urls[idx]
           result == predict_country_study_year(get_core_url_part(u).value,
                                                country_map, study_map)
           data_dict == [country |-> result.country, study |-> result.study,
                         year |-> result.year, url |-> u]
       IN  /\ added' = [made |-> TRUE, url |-> u, prediction |-> result]
           /\ IF result.exc # "none"
              THEN Crash(result.exc) /\ UNCHANGED <<registry, idx, io_log>>
              ELSE IF result.ret = "None"
              \* dict(zip(['country', 'study', 'year'], None))
              THEN Crash("TypeError") /\ UNCHANGED <<registry, idx, io_log>>
              ELSE \E io \in {"ok", "PermissionError"} :
                      /\ io_log' = Append(io_log, Op("registry append", u))
                      /\ IF io # "ok"
                         THEN Crash(io) /\ UNCHANGED <<registry, idx>>
                         ELSE /\ registry' = add_new_dataset(registry, data_dict)
                              /\ status' = status
                              /\ IF idx = Len(new_urls)
                                 THEN pc' = "scrape" /\ idx' = 1
                                 ELSE pc' = pc /\ idx' = idx + 1
    /\ UNCHANGED <<datasets, links, new_urls, data_json>>
    /\ UNCHANGED <<sheetVars, fetchVars, urlVars, classifyVars, cleanVars, scrapeVars>>

\* one pass of `for index, row in datasets.loc[datasets.link_valid == 1]`
ScrapeDataset ==
    /\ pc = "scrape"
    /\ idx <= Len(valid_rows(datasets))
    /\ \E fetched \in RunOutcomes :
          LET row == valid_rows(datasets)[idx]
              filename == CsvPath(row.filename)
              r == to_csv(files, row.url, filename, "False", fetched)
          IN  /\ files' = r.fs
              /\ open_sessions' = open_sessions + Leaked(r.fetched)
              /\ call' = CallRecord(row.url, filename, "False", files, r)
              /\ io_log' = io_log \o ToCsvOps(row.url, r)
              /\ IF r.exc # "none"
                 THEN Crash(r.exc) /\ idx' = idx
                 ELSE /\ idx' = idx + 1
                      /\ pc' = pc
                      /\ status' = status
    /\ UNCHANGED <<registry, datasets, links, new_urls, added, data_json>>
    /\ UNCHANGED <<sheetVars, fetchVars, urlVars, classifyVars, cleanVars>>

\* main.py lines 101-106: the CSV files are gathered into data.json
Export ==
    /\ pc = "scrape"
    /\ idx > Len(valid_rows(datasets))
    \* get_rankings_data reads the datasets sheet again, then the CSV files
    /\ \E io \in {"ok", "FileNotFoundError", "ValueError"} :
          /\ IF io = "ok"
             THEN data_json' = TRUE /\ Crash("exit 0")
             ELSE data_json' = data_json /\ Crash(io)
          /\ io_log' = Append(io_log,
                              Op(IF io = "FileNotFoundError"
                                 THEN "registry read failed"
                                 ELSE "registry read", <<>>))
    /\ UNCHANGED <<registry, datasets, links, new_urls, idx, added>>
    /\ UNCHANGED <<sheetVars, fetchVars, urlVars, classifyVars, cleanVars, scrapeVars>>

Next ==
    \/ LoadRegistry
    \/ GetAvailableRankings
    \/ Reconcile
    \/ NoNewUrls
    \/ AddNewUrl
    \/ ScrapeDataset
    \/ Export

Spec == Init /\ [][Next]_vars

(***************************************************************************)
(* The url read character by character, without split: the places where a *)
(* non-empty segment starts, and the segment that starts at a place.       *)
(***************************************************************************)
IsSlashes(s) == \A i \in 1..Len(s) : s[i] = "/"

SegmentStarts(u) == {i \in 1..Len(u) : u[i] # "/" /\ (i = 1 \/ u[i - 1] = "/")}

SegmentEnd(u, i) ==
    CHOOSE j \in i..Len(u) :
        /\ \A k \in i..j : u[k] # "/"
        /\ (j = Len(u) \/ u[j + 1] = "/")

SegmentAt(u, i) == SubSeq(u, i, SegmentEnd(u, i))

\* the last non-empty segment of u is 'ranking'
EndsWithRankingSegment(u) ==
    \E i \in SegmentStarts(u) :
        /\ SegmentAt(u, i) = S_ranking
        /\ IsSlashes(SubSeq(u, SegmentEnd(u, i) + 1, Len(u)))

\* v is the non-empty segment immediately before the final 'ranking' segment
PrecedesRanking(u, v) ==
    \E i \in SegmentStarts(u), j \in SegmentStarts(u) :
        /\ i < j
        /\ SegmentAt(u, i) = v
        /\ IsSlashes(SubSeq(u, SegmentEnd(u, i) + 1, j - 1))
        /\ SegmentAt(u, j) = S_ranking
        /\ IsSlashes(SubSeq(u, SegmentEnd(u, j) + 1, Len(u)))

MarkedStarts(u) == {i \in SegmentStarts(u) : is_marked(SegmentAt(u, i))}

(***************************************************************************)
(* Claims about get_core_url_part (SpecUrl).                               *)
(***************************************************************************)
\* C9 as stated: for any url whose last non-empty segment is 'ranking',
\* get_core_url_part returns, without raising, the non-empty segment just
\* before it.
C9_AnyRankingUrlReturnsPreceding ==
    (core.exc # "notcalled" /\ EndsWithRankingSegment(url))
        => (core.exc = "none" /\ PrecedesRanking(url, core.value))

\* C9 amended: for any url with at least two non-empty segments whose last
\* non-empty segment is 'ranking', get_core_url_part returns, without
\* raising, the non-empty segment just before it, whether or not other
\* segments carry the 'best' or 'employers-' markers.
C9_RankingUrlReturnsPreceding ==
    (/\ core.exc # "notcalled"
     /\ EndsWithRankingSegment(url)
     /\ Cardinality(SegmentStarts(url)) >= 2)
        => (core.exc = "none" /\ PrecedesRanking(url, core.value))

\* C9 witness: a url ending in 'ranking' with a marked segment that is not
\* the one before 'ranking'; the unmarked preceding segment was returned.
C9_Witness ==
    /\ core.exc = "none"
    /\ EndsWithRankingSegment(url)
    /\ MarkedStarts(url) # {}
    /\ ~is_marked(core.value)
    /\ PrecedesRanking(url, core.value)

\* C10: for a url whose last non-empty segment is not 'ranking', a segment
\* is returned only when exactly one segment is marked (and it is that
\* segment); with none the call fails with the no-match ValueError, with two
\* or more with the more-than-one ValueError, whose message differs.
C10_ExactlyOneMarkedSegment ==
    (/\ core.exc # "notcalled"
     /\ SegmentStarts(url) # {}
     /\ ~EndsWithRankingSegment(url))
        => LET marked == MarkedStarts(url)
           IN  /\ Cardinality(marked) = 1
                    => /\ core.exc = "none"
                       /\ \A i \in marked : core.value = SegmentAt(url, i)
               /\ Cardinality(marked) = 0
                    => /\ core.exc = "ValueError"
                       /\ core.msg = "No matching URL part found"
               /\ Cardinality(marked) >= 2
                    => /\ core.exc = "ValueError"
                       /\ core.msg = "More than one matching URL part found"

\* C10 witness: two marked segments, no trailing 'ranking', and the call
\* has failed with the more-than-one error.
C10_Witness ==
    /\ core.exc = "ValueError"
    /\ core.msg = "More than one matching URL part found"
    /\ ~EndsWithRankingSegment(url)
    /\ Cardinality(MarkedStarts(url)) >= 2

(***************************************************************************)
(* Claims about predict_country_study_year (SpecClassify).                 *)
(***************************************************************************)
\* the tokens of a core part that are not stopwords
CandidateTokens(cp) ==
    SelectSeq(split(cp, "-"), LAMBDA token : token \notin exclusions)

YearPlaces(toks) == {i \in 1..Len(toks) : is_year_token(toks[i])}
CountryPlaces(toks) == {i \in 1..Len(toks) : toks[i] \in DOMAIN country_map}
StudyPlaces(toks) == {i \in 1..Len(toks) : toks[i] \in DOMAIN study_map}

\* exactly one 4-digit token, exactly one country key, at most one study
\* key, and nothing else
WellFormed(cp) ==
    LET toks == CandidateTokens(cp)
    IN  /\ Cardinality(YearPlaces(toks)) = 1
        /\ Cardinality(CountryPlaces(toks)) = 1
        /\ Cardinality(StudyPlaces(toks)) <= 1
        /\ YearPlaces(toks) \cup CountryPlaces(toks) \cup StudyPlaces(toks)
               = 1..Len(toks)

\* C1: for every well-formed core part, in any token order, the complete
\* triple (mapped country, mapped study or 'best', int(year)) is returned.
\* Stated here for year tokens other than '0000' only (whose int is 0, which
\* the final truth test of the code takes for an unresolved year).
C1_WellFormedYieldsTriple ==
    (/\ prediction.exc # "notcalled"
     /\ WellFormed(core_part)
     /\ \A i \in YearPlaces(CandidateTokens(core_part)) :
            CandidateTokens(core_part)[i] # S_0000)
        => LET toks == CandidateTokens(core_part)
           IN  /\ prediction.exc = "none"
               /\ prediction.ret = "triple"
               /\ \A i \in YearPlaces(toks) : prediction.year = int(toks[i])
               /\ \A i \in CountryPlaces(toks) :
                      prediction.country = country_map[toks[i]]
               /\ \A i \in StudyPlaces(toks) :
                      prediction.study = study_map[toks[i]]
               /\ StudyPlaces(toks) = {} => prediction.study = "best"

(***************************************************************************)
(* Claims about clean_rows (SpecClean).                                    *)
(***************************************************************************)
\* C6: clean_rows fails whenever a row's cell count is not 6, for rows too
\* short as well as too long; it never returns records in which such a row
\* was padded or truncated.
C6_MalformedRowFails ==
    (df.exc # "notcalled" /\ \E i \in 1..Len(rows) : Len(rows[i]) # Len(RawColumns))
        => df.exc \notin {"none"}

(***************************************************************************)
(* Claims about to_csv (SpecToCsv).                                        *)
(***************************************************************************)
\* C8: a call of to_csv for a file that exists, with force_refresh not
\* True, makes no fetch, acquires no browser session and leaves the disk as
\* it was; a file is written only when it was absent or force_refresh is
\* True, and then only the file named, with one line for each row of a
\* fetch made by this call that returned normally.
C8_ExistingFileIsKept ==
    call.made =>
        LET fn == call.filename
        IN  /\ (call.before[fn].exists /\ call.force_refresh # "True")
                   => /\ call.fetches = 0
                      /\ ~call.fetched.opened
                      /\ open_sessions = 0
                      /\ files = call.before
            /\ (call.wrote \/ files # call.before)
                   => /\ ~call.before[fn].exists \/ call.force_refresh = "True"
                      /\ call.fetches = 1
                      /\ call.fetched.exc = "none"
                      /\ ~call.fetched.none
                      /\ \A f \in DOMAIN files : f # fn => files[f] = call.before[f]
                      /\ files[fn].exists
                      /\ files[fn].header = CleanColumns
                      /\ Len(files[fn].lines) = Len(call.fetched.rows)

\* C8 witness: the file was there, force_refresh was the truthy 1 (not
\* True), and the call made no fetch.
C8_Witness ==
    /\ call.made
    /\ call.before[call.filename].exists
    /\ call.force_refresh = "1"
    /\ call.fetches = 0
    /\ files = call.before

(***************************************************************************)
(* Claims about a run of main.py (Spec).                                   *)
(***************************************************************************)
ClassificationFailed ==
    /\ added.made
    /\ added.prediction.exc = "none"
    /\ added.prediction.ret = "None"

\* C2: when the classification of a new url yields no triple, the url is
\* skipped with a logged diagnostic, no registry row is added for it and
\* the run goes on: it is not aborted.
C2_ClassificationFailureSkipsUrl ==
    ClassificationFailed
        => /\ status \in {"running", "exit 0"}
           /\ added.prediction.warning # ""
           /\ \A i \in 1..Len(registry) : registry[i].url # added.url

\* the core part of a registry row's url, where it has one
HasCore(row) == get_core_url_part(row.url).exc = "none"
CoreOf(row) == get_core_url_part(row.url).value

\* C3: from a registry of pairwise distinct core parts, no two registry
\* rows have the same core part after the reconciler has run.
C3_NoDuplicateCoreParts ==
    \A i, j \in 1..Len(registry) :
        (i # j /\ HasCore(registry[i]) /\ HasCore(registry[j]))
            => CoreOf(registry[i]) # CoreOf(registry[j])

\* C4: once the reconciler has computed new_urls, a discovered link is in
\* it if and only if its core part is the core part of no known entry, and
\* nothing else is in it.
C4_NewUrlsAreTheUnknownCoreParts ==
    pc \in {"add", "scrape"} =>
        /\ \A i \in 1..Len(links) :
               links[i] \in Range(new_urls)
                   <=> ~\E j \in 1..Len(datasets) :
                           get_core_url_part(datasets[j].url).value
                               = get_core_url_part(links[i]).value
        /\ Range(new_urls) \subseteq Range(links)

\* C4 witness: the reconciler has run; one link is new, another is known
\* by its core part although no registry row has its url.
C4_Witness ==
    /\ pc = "add"
    /\ new_urls # <<>>
    /\ \E i \in 1..Len(links) :
           /\ links[i] \notin Range(new_urls)
           /\ \A j \in 1..Len(datasets) : datasets[j].url # links[i]

\* C5: no browser session that get_available_rankings or get_rows_from_url
\* acquired is left unreleased when the function is left, by return or by
\* exception.
C5_NoSessionLeftOpen == open_sessions = 0

\* a call of to_csv whose fetch raised, returned None or returned no rows
FetchFailed(c) ==
    /\ c.made
    /\ c.fetches > 0
    /\ (c.fetched.exc # "none" \/ c.fetched.none \/ Len(c.fetched.rows) = 0)

\* C7: a pass of the scrape loop whose fetch fails or yields no rows makes
\* the fetch once, cleans nothing, writes no file, raises nothing, and the
\* loop goes on to the next registry entry.
C7_FailedFetchIsSkipped ==
    [][(pc = "scrape" /\ idx <= Len(valid_rows(datasets)) /\ FetchFailed(call'))
          => /\ call'.fetches = 1
             /\ ~call'.cleaned
             /\ ~call'.wrote
             /\ call'.exc = "none"
             /\ files' = files
             /\ status' = "running"
             /\ pc' = "scrape"
             /\ idx' = idx + 1]_vars

\* C7 witness: the last fetch raised, nothing was written, and the loop is
\* at the next registry entry.
C7_Witness ==
    /\ pc = "scrape"
    /\ status = "running"
    /\ FetchFailed(call)
    /\ call.fetched.exc # "none"
    /\ files = call.before
    /\ idx = 2
    /\ idx <= Len(valid_rows(datasets))

(***************************************************************************)
(* Further claims about clean_rows (SpecClean).                            *)
(***************************************************************************)
\* every row of the list has the six cells of RawColumns, and there is one
SixCellRows(rs) ==
    /\ Len(rs) > 0
    /\ \A i \in 1..Len(rs) : Len(rs[i]) = Len(RawColumns)

\* C11: for a (non-empty) list of rows of six cells each, clean_rows
\* returns one record for each row, in the order of the rows, under the
\* nine columns rank, company, founded, employees, score, ceo, state, hq,
\* industry: no location column.
C11_OneRecordPerRow ==
    (df.exc # "notcalled" /\ SixCellRows(rows))
        => /\ df.exc = "none"
           /\ df.columns = CleanColumns
           /\ Len(df.records) = Len(rows)
           /\ \A i \in 1..Len(rows) :
                  /\ Len(df.records[i]) = Len(CleanColumns)
                  /\ df.records[i][1] = V(rows[i][1])

FirstYearPlace(toks) ==
    CHOOSE i \in YearPlaces(toks) : \A j \in YearPlaces(toks) : i <= j

\* the candidate tokens of a core part that has a year token, with the
\* first year token taken out
AfterYear(cp) ==
    LET toks == CandidateTokens(cp)
        y == FirstYearPlace(toks)
    IN  SubSeq(toks, 1, y - 1) \o SubSeq(toks, y + 1, Len(toks))

\* the token is a key of country_map, as it is or without one trailing 's'
MatchesCountry(t) ==
    \/ t \in DOMAIN country_map
    \/ Len(t) > 0 /\ t[Len(t)] = "s" /\ SubSeq(t, 1, Len(t) - 1) \in DOMAIN country_map

HasYear(cp) == YearPlaces(CandidateTokens(cp)) # {}

\* C13: when a year token was found and none of the other tokens matches
\* country_map, as it is or without a trailing 's', the call returns None:
\* it raises nothing and returns no triple.
C13_NoCountryReturnsNone ==
    (/\ calls > 0
     /\ HasYear(core_part)
     /\ \A i \in 1..Len(AfterYear(core_part)) :
            ~MatchesCountry(AfterYear(core_part)[i]))
        => /\ prediction.exc = "none"
           /\ prediction.ret = "None"

\* the name country_map gives a matching token
CountryOf(t) ==
    IF t \in DOMAIN country_map THEN country_map[t]
    ELSE country_map[SubSeq(t, 1, Len(t) - 1)]

\* the places of the tokens after the year that match country_map
MatchPlaces(cp) ==
    {i \in 1..Len(AfterYear(cp)) : MatchesCountry(AfterYear(cp)[i])}

\* C14: a returned triple holds the first 4-digit token as the year and the
\* name of the first token that matches country_map as the country; a
\* later matching token does not replace it.
C14_FirstMatchWins ==
    (calls > 0 /\ prediction.ret = "triple")
        => LET toks == CandidateTokens(core_part)
               rest == AfterYear(core_part)
               m == MatchPlaces(core_part)
               first == CHOOSE i \in m : \A j \in m : i <= j
           IN  /\ prediction.year = int(toks[FirstYearPlace(toks)])
               /\ m # {}
               /\ prediction.country = CountryOf(rest[first])

\* C15: for a core part of stopwords, one year token and one token that is
\* a key of country_map only without its trailing 's', the call returns
\* (country_map[t], 'best', year).
C15_PluralCountryYieldsBest ==
    (/\ calls > 0
     /\ HasYear(core_part)
     /\ Len(AfterYear(core_part)) = 1
     /\ AfterYear(core_part)[1] \notin DOMAIN country_map
     /\ MatchesCountry(AfterYear(core_part)[1]))
        => LET toks == CandidateTokens(core_part)
           IN  prediction = ReturnedTriple(CountryOf(AfterYear(core_part)[1]), "best",
                                           int(toks[FirstYearPlace(toks)]))

\* the number of places of the list that hold the token
Occurrences(list, t) == Cardinality({i \in 1..Len(list) : list[i] = t})

\* the tokens of the list that match the dict, as they are or without a
\* trailing 's'
Matching(list, cmap) ==
    SelectSeq(list, LAMBDA t :
        \/ t \in DOMAIN cmap
        \/ Len(t) > 0 /\ t[Len(t)] = "s" /\ SubSeq(t, 1, Len(t) - 1) \in DOMAIN cmap)

\* C16: in a call that finds a year and a country, the token taken as the
\* year is not in the list scanned for the country, no token taken as the
\* country (as it is or without its 's') is in the list scanned for the
\* study, and the country loop, when it runs to the end of the list, has
\* examined every token of the list it started on.
C16_ConsumedTokensAreRemoved ==
    LET scan == predict_scan(core_part, country_map_arg, study_map_arg)
        taken == Matching(scan.visited, country_map_arg)
    IN  (calls > 0 /\ scan.has_year /\ scan.how # "return")
            => /\ Occurrences(scan.country_scan, scan.year_token)
                      = Occurrences(scan.tokens, scan.year_token) - 1
               /\ \A k \in 1..Len(taken) :
                      Occurrences(scan.tokens, taken[k]) = 1
                          => Occurrences(scan.study_scan, taken[k]) = 0
               /\ scan.how = "exhausted"
                      => \A i \in 1..Len(scan.country_scan) :
                             Occurrences(scan.visited, scan.country_scan[i]) > 0

\* the call got as far as the study step: a year and a country were found
ReachedStudy ==
    LET scan == predict_scan(core_part, country_map_arg, study_map_arg)
    IN  /\ calls > 0
        /\ scan.has_year
        /\ scan.how # "return"
        /\ prediction.exc = "none"

\* the places of the list the study step is given that hold a study key
StudyKeyPlaces ==
    LET left == predict_scan(core_part, country_map_arg, study_map_arg).study_scan
    IN  {i \in 1..Len(left) : left[i] \in DOMAIN study_map_arg}

\* C17: once year and country are found, with no token left the study is
\* 'best'; with tokens left it is the study_map value of the first of them
\* that is a key; with tokens left and none a key the call returns None,
\* it does not take 'best'.  (The triple is returned when the year is not
\* 0.)
C17_StudyRule ==
    ReachedStudy
        => LET scan == predict_scan(core_part, country_map_arg, study_map_arg)
               left == scan.study_scan
               first == CHOOSE i \in StudyKeyPlaces : \A j \in StudyKeyPlaces : i <= j
               expected == IF Len(left) = 0 THEN "best"
                           ELSE study_map_arg[left[first]]
           IN  IF Len(left) # 0 /\ StudyKeyPlaces = {}
               THEN prediction.ret = "None" /\ prediction.warning = "study"
               ELSE /\ prediction.ret = "triple" => prediction.study = expected
                    /\ int(scan.year_token) # 0 => prediction.ret = "triple"

\* C17 witness: year and country were found, a token that is no study key
\* is left, and the call returned None for the study.
C17_Witness ==
    /\ ReachedStudy
    /\ predict_scan(core_part, country_map_arg, study_map_arg).how = "exhausted"
    /\ predict_scan(core_part, country_map_arg, study_map_arg).study_scan # <<>>
    /\ StudyKeyPlaces = {}
    /\ prediction.warning = "study"

\* what the caller is given: None, or the triple
ReturnedValue(p) ==
    IF p.ret = "None" THEN <<"None">> ELSE <<p.country, p.study, p.year>>

\* core parts without a year, without a country, and without a study
FailingCoreParts ==
    {join(<<S_usa, S_women>>, S_dash),
     join(<<S_2023, S_xyz>>, S_dash),
     join(<<S_2023, S_usa, S_xyz>>, S_dash)}

\* C18: a triple is returned only when year, country and study were all
\* found, and the value returned on a failure tells which of the three was
\* not found: two calls that fail on different fields return different
\* values.
C18_FailuresAreDistinguishable ==
    (calls > 0 /\ prediction.exc = "none")
        => /\ prediction.ret = "triple"
                  => /\ prediction.year # 0
                     /\ prediction.country # ""
                     /\ prediction.study # ""
                     /\ ReachedStudy
           /\ prediction.ret = "None"
                  => \A cp \in FailingCoreParts :
                         LET other == predict_country_study_year(cp, country_map_arg,
                                                                 study_map_arg)
                         IN  ReturnedValue(other) = ReturnedValue(prediction)
                                 => other.warning = prediction.warning

(***************************************************************************)
(* Claims about get_rows_from_url (SpecFetch).                             *)
(***************************************************************************)
RECURSIVE PagesInOrder(_, _)
\* the rows of the pages 1..n of the site, page 1 first
PagesInOrder(s, n) ==
    IF n = 0 THEN <<>>
    ELSE PagesInOrder(s, n - 1) \o parse_table_html(PageHtml(s.kind, n))

\* the page-size drop-down is at 100 before a page is parsed; the pages
\* parsed are 1, 2, ... in order, five at the most; a call that returns
\* rows has stopped at the first page without a control or after page 5 and
\* returns the rows of the pages parsed, page 1 first
FetchInOrder ==
    /\ (fetch.at = "loop" \/ fetch.visits # <<>>) => fetch.selected = "100"
    /\ Len(fetch.visits) <= MaxPages
    /\ \A i \in 1..Len(fetch.visits) : fetch.visits[i] = i
    /\ fetch.rows = PagesInOrder(web_site, Len(fetch.visits))
    /\ (fetch.at = "done" /\ fetch.result.exc = "none" /\ ~fetch.result.none)
           => /\ Len(fetch.visits)
                     = (IF web_site.npages < MaxPages THEN web_site.npages ELSE MaxPages)
              /\ fetch.result.rows = PagesInOrder(web_site, Len(fetch.visits))

\* C19: in get_rows_from_url the page size is set to 100 before any page
\* is fetched, the pages are visited in the order 1, 2, ..., the loop stops
\* at the first page without a pagination control or after 5 pages, the
\* rows returned are those of the visited pages in page order, and the
\* call always ends.
C19_PagesInOrderAndTerminates ==
    /\ []FetchInOrder
    /\ <>(fetch.at = "done")

\* C19 witness: a site of more than five pages; the call has returned the
\* rows of five pages.
C19_Witness ==
    /\ fetch.at = "done"
    /\ web_site.npages > MaxPages
    /\ fetch.result.exc = "none"
    /\ Len(fetch.visits) = MaxPages
    /\ Len(fetch.result.rows) >= MaxPages

\* cell is raw without its leading and trailing whitespace
IsTrimOf(raw, cell) ==
    /\ \E i \in 0..Len(raw) :
           /\ \A k \in 1..i : raw[k] \in Whitespace
           /\ \A k \in (i + Len(cell) + 1)..Len(raw) : raw[k] \in Whitespace
           /\ i + Len(cell) <= Len(raw)
           /\ cell = SubSeq(raw, i + 1, i + Len(cell))
    /\ Len(cell) > 0 => (cell[1] \notin Whitespace /\ cell[Len(cell)] \notin Whitespace)

\* out holds, for each <tr> of the table after the first and in the same
\* order, the trimmed texts of its cells
IsRowsOf(table, out) ==
    /\ Len(out) = (IF Len(table.trs) = 0 THEN 0 ELSE Len(table.trs) - 1)
    /\ \A k \in 1..Len(out) :
           /\ Len(out[k]) = Len(table.trs[k + 1])
           /\ \A c \in 1..Len(out[k]) : IsTrimOf(table.trs[k + 1][c], out[k][c])

\* out is what the claim says of the page: the rows of the primary table
\* when there is one, else those of the local table, else no rows
IsParseOf(html, out) ==
    IF html.primary.present THEN IsRowsOf(html.primary, out)
    ELSE IF html.local.present THEN IsRowsOf(html.local, out)
    ELSE out = <<>>

\* C20: parse_table_html takes the primary table whenever the page has it,
\* the local table only when it has no primary table, returns for each row
\* after the first the trimmed texts of its cells, in document order, and
\* returns the empty list when the page has neither table.
C20_PrimaryTablePreferred ==
    [][fetch'.visits # fetch.visits
          => \E out \in {SubSeq(fetch'.rows, Len(fetch.rows) + 1, Len(fetch'.rows))} :
                 /\ fetch'.rows = fetch.rows \o out
                 /\ IsParseOf(PageHtml(web_site.kind, fetch.page), out)]_vars

\* C20 witness: a page with both tables was parsed, and the row gathered is
\* the primary table's, trimmed.
C20_Witness ==
    /\ web_site.kind = "both"
    /\ fetch.visits = <<1>>
    /\ Len(fetch.rows) = 1
    /\ fetch.rows[1][1] = <<"1">>
    /\ fetch.rows[1] # Row_beta

(***************************************************************************)
(* Claims about add_new_dataset (SpecAppend).                              *)
(***************************************************************************)
\* the row the claim describes for the columns and data_dict
IsNewRowOf(row, columns, data_dict) ==
    /\ Len(row) = Len(columns)
    /\ \A c \in 1..Len(columns) :
           LET name == columns[c].name
           IN  IF name \in {"country", "study", "year", "url"}
               THEN row[c] = data_dict[name]
               ELSE IF name = "link_valid" THEN row[c] = IntCell(1)
               ELSE IF name = "added" THEN row[c] = TimeCell("now")
               ELSE IF columns[c].formula.has
               THEN row[c] = StrCell("=" \o columns[c].formula.text)
               ELSE row[c] = NoneCell

\* the rows of the table: the sheet rows 2..ref_last
TableRows(wb) == SubSeq(wb.body, 1, wb.ref_last - 1)

\* C21: a call of add_new_dataset that saves the workbook adds one row to
\* the table and extends the table's range by that row: the table's rows
\* are the rows it had, unchanged, followed by the new row, which holds
\* data_dict's country, study, year and url, link_valid 1, added now, the
\* formula of each calculated column and None elsewhere.
C21_AppendsOneRow ==
    [][(Len(appends') = Len(appends) + 1 /\ appends'[Len(appends')].exc = "ok")
          => /\ workbook'.ref_last = workbook.ref_last + 1
             /\ Len(TableRows(workbook')) = Len(TableRows(workbook)) + 1
             /\ SubSeq(TableRows(workbook'), 1, Len(TableRows(workbook)))
                    = TableRows(workbook)
             /\ IsNewRowOf(TableRows(workbook')[Len(TableRows(workbook'))],
                           workbook.columns,
                           appends'[Len(appends')].data_dict)
             /\ workbook'.columns = workbook.columns]_vars

(***************************************************************************)
(* C22: the order of the registry accesses and the CSV writes of a run.    *)
(***************************************************************************)
OpsAt(ops) == {i \in DOMAIN io_log : io_log[i].op \in ops}

RegistryReads == {"registry read", "registry read failed"}

RegistryOps == RegistryReads \cup {"registry append"}

\* a registry read that fails at startup ends the run with status 1 before
\* any browser session is opened and before any CSV file is written
StartupFailureIsFatal ==
    (io_log # <<>> /\ io_log[1].op = "registry read failed")
        => /\ Len(io_log) = 1
           /\ pc = "done"
           /\ status = "exit 1"
           /\ open_sessions = 0
           /\ ~call.made

\* C22 as stated: in any run every registry access comes before the first
\* CSV write, and a registry read failure at startup ends the run with a
\* non-zero status before any browser session or CSV write
C22_EveryRegistryAccessBeforeCsv ==
    /\ \A i \in OpsAt(RegistryOps) : \A j \in OpsAt({"csv write"}) : i < j
    /\ StartupFailureIsFatal

\* C22, amended: the startup read is the first operation of a run and every
\* add_new_dataset append comes before the first call of to_csv; a registry
\* read failure at startup ends the run with status 1 before any browser
\* session or CSV write; the only registry access after a CSV write is the
\* read of get_rankings_data, which is the last operation of the run, so a
\* registry failure never comes between the start and the end of a CSV write
C22_RegistryBeforeCsv ==
    /\ io_log # <<>> => io_log[1].op \in RegistryReads
    /\ \A i \in OpsAt({"registry append"}) :
          \A j \in OpsAt({"to_csv", "csv write"}) : i < j
    /\ \A i \in OpsAt(RegistryReads) :
          i > 1 => i = Len(io_log) /\ pc = "done" /\ idx > Len(valid_rows(datasets))
    /\ \A j \in OpsAt({"csv write"}) :
          \E i \in OpsAt({"to_csv"}) :
             /\ i < j
             /\ io_log[i].url = io_log[j].url
             /\ \A k \in i + 1 .. j - 1 : io_log[k].op = "browser session"
    /\ StartupFailureIsFatal

\* a run appended a row, wrote a CSV file, and failed in the read of the
\* registry that get_rankings_data makes
C22_Witness ==
    /\ pc = "done"
    /\ status = "FileNotFoundError"
    /\ OpsAt({"registry append"}) # {}
    /\ OpsAt({"csv write"}) # {}
    /\ io_log[Len(io_log)].op = "registry read failed"

\* a run ended by a registry read failure at startup
C22_StartupFailure ==
    /\ pc = "done"
    /\ status = "exit 1"
    /\ io_log = <<Op("registry read failed", <<>>)>>

(***************************************************************************)
(* C23: a run in which no discovered link is new.                          *)
(***************************************************************************)
\* every discovered link has the core part of a row of datasets
AllKnown ==
    \A i \in 1..Len(links) :
        \E j \in 1..Len(datasets) :
            get_core_url_part(datasets[j].url).value
                = get_core_url_part(links[i]).value

Scraping ==
    \/ pc = "scrape"
    \/ OpsAt({"to_csv"}) # {}
    \/ call.made
    \/ data_json

\* C23: the scraping phase is reached only if a discovered link was new;
\* when every discovered link matches a known entry the run exits with
\* status 0 from the reconciler, without calling to_csv, without writing a
\* file and without writing data.json, whatever CSV files are missing.
\* (A step that scrapes leaves links and datasets as they are, so the links
\* of the state it leads to are those of the state it starts from.)
C23_NoNewUrlsExitsWithoutScraping ==
    [][/\ (pc = "add" /\ AllKnown)
              => /\ pc' = "done"
                 /\ status' = "exit 0"
                 /\ ~Scraping'
                 /\ UNCHANGED <<registry, files, call, data_json, io_log>>
       /\ Scraping'
              => /\ links' = links
                 /\ datasets' = datasets
                 /\ ~AllKnown]_vars

\* C23 witness: the run has ended with status 0 at the reconciler, all of
\* its links known, while a valid registry row has no CSV file.
C23_Witness ==
    /\ pc = "done"
    /\ status = "exit 0"
    /\ ~data_json
    /\ ~call.made
    /\ links # <<>>
    /\ AllKnown
    /\ new_urls = <<>>
    /\ \E j \in 1..Len(datasets) :
          /\ datasets[j].link_valid = 1
          /\ ~files[CsvPath(datasets[j].filename)].exists

(***************************************************************************)
(* C24: the entries the scraping loop calls to_csv for.                    *)
(***************************************************************************)
\* the calls of to_csv so far, in order
ToCsvCalls == SelectSeq(io_log, LAMBDA e : e.op = "to_csv")

\* the rows of the startup snapshot with link_valid = 1, in registry order
ValidSnapshot == SelectSeq(datasets, LAMBDA row : row.link_valid = 1)

\* the scraping loop has run to its end: the export has read the registry
LoopEnded ==
    /\ Len(io_log) > 1
    /\ io_log[Len(io_log)].op \in RegistryReads

\* C24: the calls of to_csv are, in registry order and once each, for the
\* rows of the startup snapshot with link_valid = 1 (all of them once the
\* loop has ended, the first idx - 1 of them while it runs), each with the
\* row's url and filename, and for no other entry: none for a row whose
\* link_valid is not 1, none for a row appended in this run.
C24_ScrapesValidSnapshotRows ==
    /\ Len(ToCsvCalls) <= Len(ValidSnapshot)
    /\ \A k \in 1..Len(ToCsvCalls) : ToCsvCalls[k].url = ValidSnapshot[k].url
    /\ pc = "scrape" => Len(ToCsvCalls) = idx - 1
    /\ LoopEnded => Len(ToCsvCalls) = Len(ValidSnapshot)
    /\ call.made
          => /\ ToCsvCalls # <<>>
             /\ call.url = ValidSnapshot[Len(ToCsvCalls)].url
             /\ call.filename = CsvPath(ValidSnapshot[Len(ToCsvCalls)].filename)
    /\ \A k \in 1..Len(ToCsvCalls) :
          /\ \A j \in 1..Len(datasets) :
                datasets[j].link_valid # 1 => ToCsvCalls[k].url # datasets[j].url
          /\ \A j \in Len(datasets) + 1 .. Len(registry) :
                ToCsvCalls[k].url # registry[j].url

\* C24 witness: the loop has ended after a call of to_csv for the valid row
\* of a snapshot that also holds a row with link_valid 0, in a run that
\* appended a row to the registry.
C24_Witness ==
    /\ pc = "done"
    /\ data_json
    /\ LoopEnded
    /\ Len(ToCsvCalls) = 1
    /\ \E j \in 1..Len(datasets) : datasets[j].link_valid = 0
    /\ Len(registry) > Len(datasets)

\* the loop has ended after two calls of to_csv
C24_TwoCalls ==
    /\ pc = "done"
    /\ LoopEnded
    /\ Len(ToCsvCalls) = 2

====
